---- MODULE Spec2Model ----
(***************************************************************************)
(* Model of the error-field parser (tokio-postgres/src/error/mod.rs) and   *)
(* of the Range codec (postgres-range/src/impls.rs).                       *)
(*                                                                         *)
(* One behaviour exercises one operation, selected by `op` in Init:        *)
(*   op = "parse" : Error::db / DbError::parse pulls the fields of one     *)
(*                  message from the lazy field iterator, one per step;    *)
(*   op = "range" : a Range value is encoded and the bytes decoded back;   *)
(*   op = "decode": wire bytes, well formed or not, are decoded.           *)
(***************************************************************************)
EXTENDS Integers, Sequences, FiniteSets, TLC

VARIABLES
    op,        \* which operation this behaviour exercises
    ps,        \* DbError::parse on the message: [pc, loc, result]
    psU,       \* DbError::parse on the message without its unrecognized fields
    psPQ,      \* DbError::parse on the message without its `p` and `q` fields
    error,     \* the Error returned by Error::db (None until it returns)
    last,      \* the message: code -> value of the last field with that code
    hist,      \* the message: what occurred in it, and how it ended
    rg,        \* the Range codec call: [pc, ty, nullable, checked, value, pre, buf,
               \*   enc, enc_calls, dec, dec_calls]
    err,       \* the Error a caller holds: [pc, e0, e, prev, call, ret, takes]
    row,       \* the from_row call: [pc, n, cells, ret, calls]
    lp         \* the LazyPin a caller holds: [pc, v0, l, call, ret, pins]

vars == <<op, ps, psU, psPQ, error, last, hist, rg, err, row, lp>>

----------------------------------------------------------------------------
(* Option and Result *)

None == [tag |-> "None"]
Some(x) == [tag |-> "Some", v |-> x]
IsSome(o) == o.tag = "Some"
IsNone(o) == o.tag = "None"

Ok(x) == [tag |-> "Ok", v |-> x]
Err(e) == [tag |-> "Err", e |-> e]
IsOk(r) == r.tag = "Ok"
IsErr(r) == r.tag = "Err"

----------------------------------------------------------------------------
(* Bounds *)

\* Element values of a Range are 0 .. MaxElem.
MaxElem == 2

\* Tuples of 1 to MaxArity elements are built from rows.
MaxArity == 3

----------------------------------------------------------------------------
(* u32 and str::parse::<u32>.  A u32 is kept as two 16-bit limbs so that   *)
(* the arithmetic near 2^32 stays exact.                                   *)

Base == 256 * 256

U32Zero == [hi |-> 0, lo |-> 0]

Digits == {"0", "1", "2", "3", "4", "5", "6", "7", "8", "9"}

\* char::to_digit(10)
DigitVal(c) ==
    CASE c = "0" -> 0 [] c = "1" -> 1 [] c = "2" -> 2 [] c = "3" -> 3
      [] c = "4" -> 4 [] c = "5" -> 5 [] c = "6" -> 6 [] c = "7" -> 7
      [] c = "8" -> 8 [] c = "9" -> 9

\* u32::checked_mul(x, 10)
CheckedMul10(x) ==
    LET lo10 == x.lo * 10
        hi10 == x.hi * 10 + (lo10 \div Base)
    IN  IF hi10 >= Base THEN None ELSE Some([hi |-> hi10, lo |-> lo10 % Base])

\* u32::wrapping_add in place of checked_add.
CheckedAdd_Wrapping(x, d) ==
    LET lo1 == x.lo + d
        hi1 == x.hi + (lo1 \div Base)
    IN  Some([hi |-> hi1 % Base, lo |-> lo1 % Base])

\* u32::checked_add(x, d)
CheckedAdd(x, d) ==
    LET lo1 == x.lo + d
        hi1 == x.hi + (lo1 \div Base)
    IN  IF hi1 >= Base THEN None ELSE Some([hi |-> hi1, lo |-> lo1 % Base])

\* The digit loop of u32::from_str_radix(_, 10): None on a non-digit or on
\* overflow.
RECURSIVE AccumulateDigits(_, _)
AccumulateDigits(acc, digits) ==
    IF digits = <<>> THEN Some(acc)
    ELSE IF Head(digits) \notin Digits THEN None
    ELSE LET m == CheckedMul10(acc)
         IN  IF IsNone(m) THEN None
             ELSE LET a == CheckedAdd(m.v, DigitVal(Head(digits)))
                  IN  IF IsNone(a) THEN None
                      ELSE AccumulateDigits(a.v, Tail(digits))

\* str::parse::<u32>(): the empty text and a lone sign are rejected; a
\* leading "+" is skipped; "-" is no digit of an unsigned type.
ParseU32(text) ==
    IF text = <<>> THEN None
    ELSE IF Len(text) = 1 /\ Head(text) \in {"+", "-"} THEN None
    ELSE IF Head(text) = "+" THEN AccumulateDigits(U32Zero, Tail(text))
    ELSE AccumulateDigits(U32Zero, text)

----------------------------------------------------------------------------
(* Severity *)

SeverityLevels ==
    {"Panic", "Fatal", "Error", "Warning", "Notice", "Debug", "Info", "Log"}

\* from_str without its "LOG" arm.
SeverityFromStr_NoLog(s) ==
    CASE s = "PANIC" -> Some("Panic")
      [] s = "FATAL" -> Some("Fatal")
      [] s = "ERROR" -> Some("Error")
      [] s = "WARNING" -> Some("Warning")
      [] s = "NOTICE" -> Some("Notice")
      [] s = "DEBUG" -> Some("Debug")
      [] s = "INFO" -> Some("Info")
      [] OTHER -> None

\* Severity::from_str
SeverityFromStr(s) ==
    CASE s = "PANIC" -> Some("Panic")
      [] s = "FATAL" -> Some("Fatal")
      [] s = "ERROR" -> Some("Error")
      [] s = "WARNING" -> Some("Warning")
      [] s = "NOTICE" -> Some("Notice")
      [] s = "DEBUG" -> Some("Debug")
      [] s = "INFO" -> Some("Info")
      [] s = "LOG" -> Some("Log")
      [] OTHER -> None

\* SqlState::from_code keeps the code text inside a SqlState value.
SqlStateFromCode(s) == [sqlstate |-> s]

----------------------------------------------------------------------------
(* The fields a message can carry *)

RecognizedCodes ==
    {"S", "V", "C", "M", "D", "H", "P", "p", "q", "W",
     "s", "t", "c", "d", "n", "F", "L", "R"}

UnknownCodes == {"Z", "k"}

Codes == RecognizedCodes \cup UnknownCodes

MandatoryCodes == {"S", "C", "M"}

\* The optional codes by what they describe: the error position, the
\* parsed severity, the reporting source location, the message texts and
\* the database object.
OptionalGroups ==
    { {"P", "p", "q"}, {"V"}, {"F", "L", "R"}, {"D", "H", "W"},
      {"s", "t", "c", "d", "n"} }

MaxU32Text == <<"4", "2", "9", "4", "9", "6", "7", "2", "9", "5">>

\* Values offered for P, p and L: three that are integers of 32 bits and
\* texts that are not.
NumTexts ==
    { <<"0">>, <<"+", "0", "7">>, MaxU32Text,
      <<"4", "2", "9", "4", "9", "6", "7", "2", "9", "6">>,
      <<"4", "2", "9", "4", "9", "6", "7", "2", "9", "5", "0">>,
      <<"-", "1">>, <<"-", "0">>, <<>>, <<"+">>, <<"x">>, <<"1", "x">> }

SeverityTexts ==
    {"PANIC", "FATAL", "ERROR", "WARNING", "NOTICE", "DEBUG", "INFO", "LOG",
     "error", "TRACE", ""}

FieldValues(c) ==
    CASE c \in {"P", "p", "L"} -> NumTexts
      [] c = "V" -> SeverityTexts
      [] c \in {"S", "C", "M", "q", "D"} -> {"a", "b"}
      [] OTHER -> {"a"}

Fields == UNION { { [type_ |-> c, value |-> v] : v \in FieldValues(c) } : c \in Codes }

----------------------------------------------------------------------------
(* DbError::parse *)

\* The locals of DbError::parse before the loop.
Locals0 ==
    [severity |-> None, parsed_severity |-> None, code |-> None,
     message |-> None, detail |-> None, hint |-> None,
     normal_position |-> None, internal_position |-> None,
     internal_query |-> None, where_ |-> None, schema |-> None,
     table |-> None, column |-> None, datatype |-> None,
     constraint |-> None, file |-> None, line |-> None, routine |-> None]

\* The first occurrence kept: `if x.is_none() { x = Some(value) }`.
Assign_KeepFirst(old, value) == IF IsSome(old) THEN old ELSE Some(value)

\* `x = Some(value)`: the slot is overwritten whatever it held.
Assign(old, value) == Some(value)

\* `parse::<u32>().unwrap_or(0)` in place of `map_err(..)?`.
ParseIntField_OrZero(text, msg) ==
    LET r == ParseU32(text)
    IN  IF IsSome(r) THEN Ok(r.v) ELSE Ok(U32Zero)

\* `field.value().parse::<u32>().map_err(|_| io::Error::new(InvalidInput, msg))`
ParseIntField(text, msg) ==
    LET r == ParseU32(text)
    IN  IF IsSome(r) THEN Ok(r.v) ELSE Err(msg)

\* `Severity::from_str(field.value()).ok_or_else(|| io::Error::new(InvalidInput, msg))`
ParseSeverityField(text, msg) ==
    LET r == SeverityFromStr(text)
    IN  IF IsSome(r) THEN Ok(r.v) ELSE Err(msg)

\* An unrecognized code rejected: `_ => return Err(..)`.
OnUnrecognized_Reject(loc, f) == Err("unknown field")

\* The `_ => {}` arm.
OnUnrecognized(loc, f) == Ok(loc)

\* One arm of `match field.type_()`: Ok(new locals) or Err(fault).
MatchField(loc, f) ==
    LET t == f.type_
        v == f.value
    IN  CASE t = "S" -> Ok([loc EXCEPT !.severity = Assign(@, v)])
          [] t = "C" -> Ok([loc EXCEPT !.code = Assign(@, SqlStateFromCode(v))])
          [] t = "M" -> Ok([loc EXCEPT !.message = Assign(@, v)])
          [] t = "D" -> Ok([loc EXCEPT !.detail = Assign(@, v)])
          [] t = "H" -> Ok([loc EXCEPT !.hint = Assign(@, v)])
          [] t = "P" ->
               LET r == ParseIntField(v, "P field did not contain an integer")
               IN  IF IsErr(r) THEN r
                   ELSE Ok([loc EXCEPT !.normal_position = Assign(@, r.v)])
          [] t = "p" ->
               LET r == ParseIntField(v, "p field did not contain an integer")
               IN  IF IsErr(r) THEN r
                   ELSE Ok([loc EXCEPT !.internal_position = Assign(@, r.v)])
          [] t = "q" -> Ok([loc EXCEPT !.internal_query = Assign(@, v)])
          [] t = "W" -> Ok([loc EXCEPT !.where_ = Assign(@, v)])
          [] t = "s" -> Ok([loc EXCEPT !.schema = Assign(@, v)])
          [] t = "t" -> Ok([loc EXCEPT !.table = Assign(@, v)])
          [] t = "c" -> Ok([loc EXCEPT !.column = Assign(@, v)])
          [] t = "d" -> Ok([loc EXCEPT !.datatype = Assign(@, v)])
          [] t = "n" -> Ok([loc EXCEPT !.constraint = Assign(@, v)])
          [] t = "F" -> Ok([loc EXCEPT !.file = Assign(@, v)])
          [] t = "L" ->
               LET r == ParseIntField(v, "L field did not contain an integer")
               IN  IF IsErr(r) THEN r
                   ELSE Ok([loc EXCEPT !.line = Assign(@, r.v)])
          [] t = "R" -> Ok([loc EXCEPT !.routine = Assign(@, v)])
          [] t = "V" ->
               LET r == ParseSeverityField(v, "V field contained an invalid value")
               IN  IF IsErr(r) THEN r
                   ELSE Ok([loc EXCEPT !.parsed_severity = Assign(@, r.v)])
          [] OTHER -> OnUnrecognized(loc, f)

\* `unwrap_or_default()` in place of `ok_or_else(..)?`.
RequireField_OrDefault(opt, msg) == IF IsSome(opt) THEN Ok(opt.v) ELSE Ok("")

\* `opt.ok_or_else(|| io::Error::new(InvalidInput, msg))`
RequireField(opt, msg) ==
    IF IsSome(opt) THEN Ok(opt.v) ELSE Err(msg)

\* The internal position looked at before the normal one.
ResolvePosition_InternalFirst(normal_position, internal_position, internal_query) ==
    IF IsSome(internal_position) /\ IsSome(internal_query)
    THEN Ok(Some([kind |-> "Internal",
                  position |-> internal_position.v,
                  query |-> internal_query.v]))
    ELSE IF IsSome(normal_position)
    THEN Ok(Some([kind |-> "Original", position |-> normal_position.v]))
    ELSE IF IsSome(internal_position)
    THEN Err("q field missing but p field present")
    ELSE Ok(None)

\* An internal position without its query dropped instead of refused.
ResolvePosition_QueryOptional(normal_position, internal_position, internal_query) ==
    IF IsSome(normal_position)
    THEN Ok(Some([kind |-> "Original", position |-> normal_position.v]))
    ELSE IF IsSome(internal_position) /\ IsSome(internal_query)
    THEN Ok(Some([kind |-> "Internal",
                  position |-> internal_position.v,
                  query |-> internal_query.v]))
    ELSE Ok(None)

\* The `position:` expression of the DbError literal.
ResolvePosition(normal_position, internal_position, internal_query) ==
    IF IsSome(normal_position)
    THEN Ok(Some([kind |-> "Original", position |-> normal_position.v]))
    ELSE IF IsSome(internal_position)
    THEN IF IsSome(internal_query)
         THEN Ok(Some([kind |-> "Internal",
                       position |-> internal_position.v,
                       query |-> internal_query.v]))
         ELSE Err("q field missing but p field present")
    ELSE Ok(None)

\* The DbError literal with its position resolved before S, C and M are
\* required.
BuildDbError_PositionFirst(loc) ==
    LET s == RequireField(loc.severity, "S field missing")
        c == RequireField(loc.code, "C field missing")
        m == RequireField(loc.message, "M field missing")
        p == ResolvePosition(loc.normal_position, loc.internal_position,
                             loc.internal_query)
    IN  IF IsErr(p) THEN p
        ELSE IF IsErr(s) THEN s
        ELSE IF IsErr(c) THEN c
        ELSE IF IsErr(m) THEN m
        ELSE Ok([severity |-> s.v,
                 parsed_severity |-> loc.parsed_severity,
                 code |-> c.v,
                 message |-> m.v,
                 detail |-> loc.detail,
                 hint |-> loc.hint,
                 position |-> p.v,
                 where_ |-> loc.where_,
                 schema |-> loc.schema,
                 table |-> loc.table,
                 column |-> loc.column,
                 datatype |-> loc.datatype,
                 constraint |-> loc.constraint,
                 file |-> loc.file,
                 line |-> loc.line,
                 routine |-> loc.routine])

\* The DbError literal after the loop; its field expressions are evaluated
\* in the order they are written and the first `?` that fails returns.
BuildDbError(loc) ==
    LET s == RequireField(loc.severity, "S field missing")
        c == RequireField(loc.code, "C field missing")
        m == RequireField(loc.message, "M field missing")
        p == ResolvePosition(loc.normal_position, loc.internal_position,
                             loc.internal_query)
    IN  IF IsErr(s) THEN s
        ELSE IF IsErr(c) THEN c
        ELSE IF IsErr(m) THEN m
        ELSE IF IsErr(p) THEN p
        ELSE Ok([severity |-> s.v,
                 parsed_severity |-> loc.parsed_severity,
                 code |-> c.v,
                 message |-> m.v,
                 detail |-> loc.detail,
                 hint |-> loc.hint,
                 position |-> p.v,
                 where_ |-> loc.where_,
                 schema |-> loc.schema,
                 table |-> loc.table,
                 column |-> loc.column,
                 datatype |-> loc.datatype,
                 constraint |-> loc.constraint,
                 file |-> loc.file,
                 line |-> loc.line,
                 routine |-> loc.routine])

\* A run of DbError::parse: in the loop with its locals, or returned.
Parsing(loc) == [pc |-> "loop", loc |-> loc, result |-> None]
Returned(r) == [pc |-> "done", loc |-> Locals0, result |-> Some(r)]

\* A field that fails to convert skipped instead of returned with `?`.
LoopBody_SkipInvalid(p, f) ==
    IF p.pc # "loop" THEN p
    ELSE LET r == MatchField(p.loc, f)
         IN  IF IsErr(r) THEN p ELSE Parsing(r.v)

\* One iteration of `while let Some(field) = fields.next()?` on field f.
LoopBody(p, f) ==
    IF p.pc # "loop" THEN p
    ELSE LET r == MatchField(p.loc, f)
         IN  IF IsErr(r) THEN Returned(r) ELSE Parsing(r.v)

\* fields.next() yielded Ok(None): the loop ends and the DbError is built.
LoopEnd(p) == IF p.pc # "loop" THEN p ELSE Returned(BuildDbError(p.loc))

\* fields.next() yielded Err(e): `?` returns it.
StreamFault == "fields.next() failed"

LoopFault(p) == IF p.pc # "loop" THEN p ELSE Returned(Err(StreamFault))

\* Error::db
ErrorDb(r) ==
    IF IsOk(r) THEN [kind |-> "Db", db |-> r.v]
    ELSE [kind |-> "Parse", e |-> r.e]

----------------------------------------------------------------------------
(* The message seen so far *)

Last0 == [c \in RecognizedCodes |-> None]

Hist0 == [unknown |-> FALSE, repeated |-> FALSE, bad |-> None, end |-> "open"]

\* The decimal digits of a text that is an optional "+" and digits.
NumDigits(text) ==
    IF text # <<>> /\ Head(text) = "+" THEN Tail(text) ELSE text

RECURSIVE StripZeros(_)
StripZeros(d) ==
    IF Len(d) > 1 /\ Head(d) = "0" THEN StripZeros(Tail(d)) ELSE d

\* d < e for two digit sequences of one length.
RECURSIVE DigitsLess(_, _)
DigitsLess(d, e) ==
    /\ d # <<>>
    /\ \/ DigitVal(Head(d)) < DigitVal(Head(e))
       \/ Head(d) = Head(e) /\ DigitsLess(Tail(d), Tail(e))

\* The text denotes an integer of 0 .. 2^32 - 1: an optional "+", then
\* decimal digits whose number is at most 4294967295.
DenotesU32(text) ==
    LET d == NumDigits(text)
        z == StripZeros(d)
    IN  /\ d # <<>>
        /\ \A i \in 1..Len(d) : d[i] \in Digits
        /\ \/ Len(z) < Len(MaxU32Text)
           \/ Len(z) = Len(MaxU32Text) /\ ~DigitsLess(MaxU32Text, z)

SeverityTokens ==
    {"PANIC", "FATAL", "ERROR", "WARNING", "NOTICE", "DEBUG", "INFO", "LOG"}

\* Whether the value of a field is what the protocol allows for its code.
ValidField(f) ==
    CASE f.type_ \in {"P", "p", "L"} -> DenotesU32(f.value)
      [] f.type_ = "V" -> f.value \in SeverityTokens
      [] OTHER -> TRUE

CodesSeen == {c \in RecognizedCodes : IsSome(last[c])}

GroupsSeen == {g \in OptionalGroups : g \cap CodesSeen # {}}

\* The fields the server may send next.  The messages explored carry,
\* besides S, C, M and unrecognized fields, optional fields of one group
\* of OptionalGroups; their length and the repetitions are not limited.
Offered ==
    LET seen == GroupsSeen
    IN  { f \in Fields :
            \/ f.type_ \notin RecognizedCodes
            \/ f.type_ \in MandatoryCodes
            \/ \A g \in seen : f.type_ \in g }

\* `last` and `hist` describe the message up to its first invalid field.
Record(f) ==
    IF ~ValidField(f)
    THEN /\ hist' = [hist EXCEPT !.bad = Some(f.type_)]
         /\ last' = last
    ELSE /\ last' = IF f.type_ \in RecognizedCodes
                     THEN [last EXCEPT ![f.type_] = Some(f.value)]
                     ELSE last
         /\ hist' = [hist EXCEPT
                       !.unknown = @ \/ f.type_ \notin RecognizedCodes,
                       !.repeated = @ \/ (/\ f.type_ \in RecognizedCodes
                                           /\ IsSome(last[f.type_])
                                           /\ last[f.type_].v # f.value)]

----------------------------------------------------------------------------
(* Type descriptors and the element capability T of Range<T> *)

ElemTypes == {"int4", "text"}

\* Type::kind(): Simple, Array(elem), Range(elem) or Domain(base).
Types ==
    { [kind |-> "Simple", name |-> e] : e \in ElemTypes }
    \cup { [kind |-> k, elem |-> e] : k \in {"Array", "Range", "Domain"}, e \in ElemTypes }

\* <T as FromSql>::accepts / <T as ToSql>::accepts
ElemAccepts(e) == e = "int4"

\* Element values: numbers, the SQL NULL of an optional-shaped T, and a
\* value T::to_sql refuses.
Elem(n) == [n |-> n]
NullElem == [null |-> TRUE]
BadElem == [n |-> -1]

ElemFault == "value out of range"

\* A call of the element capability as the codec made it: the method, the
\* type and the argument it was given, and what it returned.
ElemCall(method, ty, arg, ret) ==
    [method |-> method, ty |-> ty, arg |-> arg, ret |-> ret]

\* T::to_sql(value, ty, buf): the value as two bytes, most significant first.
\* `calls` is the one call made.
ElemToSql(value, ty, buf) ==
    LET r == IF value = NullElem THEN [res |-> Ok("Yes"), buf |-> buf]
             ELSE IF value = BadElem THEN [res |-> Err(ElemFault), buf |-> buf]
             ELSE [res |-> Ok("No"),
                   buf |-> buf \o <<value.n \div 256, value.n % 256>>]
    IN  [res |-> r.res, buf |-> r.buf,
         calls |-> <<ElemCall("to_sql", ty, value, r.res)>>]

\* T::from_sql(ty, raw)
ElemFromSql(ty, raw) ==
    IF Len(raw) = 2 THEN Ok(Elem(raw[1] * 256 + raw[2]))
    ELSE Err("invalid buffer size")

\* T::from_sql_null(ty): the null of an optional-shaped T, a fault otherwise.
ElemFromSqlNull(ty, nullable) ==
    IF nullable THEN Ok(NullElem) ELSE Err("WasNull")

----------------------------------------------------------------------------
(* Range values *)

RangeEmpty == [empty |-> TRUE]

\* Range::new(lower, upper)
RangeNew(lower, upper) == [empty |-> FALSE, lower |-> lower, upper |-> upper]

\* RangeBound::new(value, type_)
RangeBoundNew(value, type_) == [value |-> value, type_ |-> type_]

BoundTypes == {"Inclusive", "Exclusive"}

BoundsOver(elems) ==
    {None} \cup { Some(RangeBoundNew(v, t)) : v \in elems, t \in BoundTypes }

RangesOver(elems) ==
    {RangeEmpty}
    \cup { RangeNew(l, u) : l \in BoundsOver(elems), u \in BoundsOver(elems) }

----------------------------------------------------------------------------
(* The range wire format (postgres_protocol::types) *)

RANGE_UPPER_UNBOUNDED == 16
RANGE_LOWER_UNBOUNDED == 8
RANGE_UPPER_INCLUSIVE == 4
RANGE_LOWER_INCLUSIVE == 2
RANGE_EMPTY == 1

HasBit(tag, bit) == (tag \div bit) % 2 = 1

\* i32::to_be_bytes
I32ToBE(n) ==
    IF n < 0 THEN <<255, 255, 255, 255>>
    ELSE <<(n \div 16777216) % 256, (n \div 65536) % 256, (n \div 256) % 256, n % 256>>

\* i32::from_be_bytes
I32FromBE(b) ==
    (IF b[1] >= 128 THEN b[1] - 256 ELSE b[1]) * 16777216
    + b[2] * 65536 + b[3] * 256 + b[4]

\* types::empty_range_to_sql
EmptyRangeToSql(buf) == buf \o <<RANGE_EMPTY>>

\* bound_to_sql with both arms of its match yielding Inclusive.
BoundToSql_AlwaysInclusive(bound, ty, buf) ==
    IF IsNone(bound)
    THEN [res |-> Ok([kind |-> "Unbounded"]), buf |-> buf, calls |-> <<>>]
    ELSE LET e == ElemToSql(bound.v.value, ty, buf)
         IN  IF IsErr(e.res) THEN e
             ELSE LET null == IF e.res.v = "Yes" THEN "Yes" ELSE "No"
                  IN  [res |-> Ok([kind |-> "Inclusive", v |-> null]),
                       buf |-> e.buf, calls |-> e.calls]

\* bound_to_sql that reports every value as not null.
BoundToSql_NeverNull(bound, ty, buf) ==
    IF IsNone(bound)
    THEN [res |-> Ok([kind |-> "Unbounded"]), buf |-> buf, calls |-> <<>>]
    ELSE LET e == ElemToSql(bound.v.value, ty, buf)
         IN  IF IsErr(e.res) THEN e
             ELSE [res |-> Ok([kind |-> bound.v.type_, v |-> "No"]),
                   buf |-> e.buf, calls |-> e.calls]

\* bound_to_sql(bound, ty, buf)
BoundToSql(bound, ty, buf) ==
    IF IsNone(bound)
    THEN [res |-> Ok([kind |-> "Unbounded"]), buf |-> buf, calls |-> <<>>]
    ELSE LET e == ElemToSql(bound.v.value, ty, buf)
         IN  IF IsErr(e.res) THEN e
             ELSE LET null == IF e.res.v = "Yes" THEN "Yes" ELSE "No"
                  IN  IF bound.v.type_ = "Exclusive"
                      THEN [res |-> Ok([kind |-> "Exclusive", v |-> null]),
                            buf |-> e.buf, calls |-> e.calls]
                      ELSE [res |-> Ok([kind |-> "Inclusive", v |-> null]),
                            buf |-> e.buf, calls |-> e.calls]

\* types::write_bound: a length placeholder, the bound written by the
\* callback, then the length patched in (-1 for a null) or the placeholder
\* removed (unbounded).  Yields the tag bits of the bound.
WriteBound(bound, ty, unbounded_tag, inclusive_tag, buf) ==
    LET base == Len(buf)
        r == BoundToSql(bound, ty, buf \o <<0, 0, 0, 0>>)
    IN  IF IsErr(r.res) THEN r
        ELSE IF r.res.v.kind = "Unbounded"
        THEN [res |-> Ok(unbounded_tag), buf |-> SubSeq(r.buf, 1, base),
              calls |-> r.calls]
        ELSE LET len == IF r.res.v.v = "No" THEN Len(r.buf) - base - 4 ELSE -1
             IN  [res |-> Ok(IF r.res.v.kind = "Inclusive" THEN inclusive_tag ELSE 0),
                  buf |-> SubSeq(r.buf, 1, base) \o I32ToBE(len)
                          \o SubSeq(r.buf, base + 5, Len(r.buf)),
                  calls |-> r.calls]

\* types::range_to_sql once both bounds are written as l and u: `?` on the
\* upper bound, then `buf[tag_idx] = tag`.
TagWritten(l, u, tag_idx) ==
    IF IsErr(u.res)
    THEN [res |-> u.res, buf |-> u.buf, calls |-> l.calls \o u.calls]
    ELSE [res |-> Ok("written"),
          buf |-> [u.buf EXCEPT ![tag_idx] = l.res.v + u.res.v],
          calls |-> l.calls \o u.calls]

\* types::range_to_sql once the lower bound is written as l: `?` on it, then
\* the upper bound.
UpperWritten(l, upper, ty, tag_idx) ==
    IF IsErr(l.res) THEN l
    ELSE TagWritten(l, WriteBound(upper, ty, RANGE_UPPER_UNBOUNDED,
                                  RANGE_UPPER_INCLUSIVE, l.buf), tag_idx)

\* types::range_to_sql: the tag byte, then the lower and the upper bound.
ProtoRangeToSql(lower, upper, ty, buf) ==
    UpperWritten(WriteBound(lower, ty, RANGE_LOWER_UNBOUNDED, RANGE_LOWER_INCLUSIVE,
                            buf \o <<0>>),
                 upper, ty, Len(buf) + 1)

\* types::read_bound
ReadBound(buf, tag, unbounded, inclusive) ==
    IF HasBit(tag, unbounded) THEN [res |-> Ok([kind |-> "Unbounded"]), buf |-> buf]
    ELSE IF Len(buf) < 4 THEN [res |-> Err("unexpected EOF"), buf |-> buf]
    ELSE LET len == I32FromBE(SubSeq(buf, 1, 4))
             rest == SubSeq(buf, 5, Len(buf))
         IN  IF len >= 0 /\ Len(rest) < len
             THEN [res |-> Err("unexpected EOF"), buf |-> rest]
             ELSE LET value == IF len < 0 THEN None ELSE Some(SubSeq(rest, 1, len))
                      tail == IF len < 0 THEN rest ELSE SubSeq(rest, len + 1, Len(rest))
                  IN  [res |-> Ok([kind |-> IF HasBit(tag, inclusive)
                                            THEN "Inclusive" ELSE "Exclusive",
                                   v |-> value]),
                       buf |-> tail]

\* types::range_from_sql
ProtoRangeFromSql(raw) ==
    IF raw = <<>> THEN Err("unexpected EOF")
    ELSE LET tag == Head(raw)
             buf == Tail(raw)
         IN  IF tag = RANGE_EMPTY
             THEN IF buf # <<>> THEN Err("invalid message size")
                  ELSE Ok([empty |-> TRUE])
             ELSE LET l == ReadBound(buf, tag, RANGE_LOWER_UNBOUNDED, RANGE_LOWER_INCLUSIVE)
                  IN  IF IsErr(l.res) THEN l.res
                      ELSE LET u == ReadBound(l.buf, tag, RANGE_UPPER_UNBOUNDED,
                                              RANGE_UPPER_INCLUSIVE)
                           IN  IF IsErr(u.res) THEN u.res
                               ELSE IF u.buf # <<>> THEN Err("invalid message size")
                               ELSE Ok([empty |-> FALSE, lower |-> l.res.v,
                                        upper |-> u.res.v])

----------------------------------------------------------------------------
(* impl FromSql / ToSql for Range<T> *)

Panic == [tag |-> "Panic"]
IsPanic(r) == r.tag = "Panic"

\* `match *ty.kind() { Kind::Range(ref ty) => ty, _ => panic!(..) }`
ElementType(ty) == IF ty.kind = "Range" THEN Some(ty.elem) ELSE None

\* accepts looking through an array as it does through a range.
RangeAccepts_AnyContainer(ty) ==
    IF ty.kind \in {"Range", "Array"} THEN ElemAccepts(ty.elem) ELSE FALSE

\* <Range<T> as FromSql>::accepts and <Range<T> as ToSql>::accepts
RangeAccepts(ty) == IF ty.kind = "Range" THEN ElemAccepts(ty.elem) ELSE FALSE

\* The element decode bound_from_sql makes for a payload or for a null.
DecodeValue(value, ty, nullable) ==
    LET ret == IF IsSome(value) THEN ElemFromSql(ty, value.v)
               ELSE ElemFromSqlNull(ty, nullable)
    IN  [res |-> ret,
         calls |-> <<ElemCall(IF IsSome(value) THEN "from_sql" ELSE "from_sql_null",
                              ty, value, ret)>>]

\* bound_from_sql with the kinds of its two arms exchanged.
BoundFromSql_KindsSwapped(bound, ty, nullable) ==
    IF bound.kind = "Unbounded" THEN [res |-> Ok(None), calls |-> <<>>]
    ELSE LET value == DecodeValue(bound.v, ty, nullable)
         IN  IF IsErr(value.res) THEN value
             ELSE [res |-> Ok(Some(RangeBoundNew(value.res.v,
                                   IF bound.kind = "Exclusive" THEN "Inclusive"
                                   ELSE "Exclusive"))),
                   calls |-> value.calls]

\* bound_from_sql(bound, ty): [res, calls], res Err(fault) or Ok(bound).
BoundFromSql(bound, ty, nullable) ==
    IF bound.kind = "Exclusive"
    THEN LET value == DecodeValue(bound.v, ty, nullable)
         IN  IF IsErr(value.res) THEN value
             ELSE [res |-> Ok(Some(RangeBoundNew(value.res.v, "Exclusive"))),
                   calls |-> value.calls]
    ELSE IF bound.kind = "Inclusive"
    THEN LET value == DecodeValue(bound.v, ty, nullable)
         IN  IF IsErr(value.res) THEN value
             ELSE [res |-> Ok(Some(RangeBoundNew(value.res.v, "Inclusive"))),
                   calls |-> value.calls]
    ELSE [res |-> Ok(None), calls |-> <<>>]

\* <Range<T> as FromSql>::from_sql(ty, raw): [res, calls] with res Panic,
\* Err(fault) or Ok(range).
RangeFromSql(ty, raw, nullable) ==
    LET element_type == ElementType(ty)
    IN  IF IsNone(element_type) THEN [res |-> Panic, calls |-> <<>>]
        ELSE LET r == ProtoRangeFromSql(raw)
             IN  IF IsErr(r) THEN [res |-> r, calls |-> <<>>]
                 ELSE IF r.v.empty THEN [res |-> Ok(RangeEmpty), calls |-> <<>>]
                 ELSE LET lower == BoundFromSql(r.v.lower, element_type.v, nullable)
                      IN  IF IsErr(lower.res) THEN lower
                          ELSE LET upper == BoundFromSql(r.v.upper, element_type.v, nullable)
                               IN  IF IsErr(upper.res)
                                   THEN [res |-> upper.res,
                                         calls |-> lower.calls \o upper.calls]
                                   ELSE [res |-> Ok(RangeNew(lower.res.v, upper.res.v)),
                                         calls |-> lower.calls \o upper.calls]

\* `types::range_to_sql(..)?; Ok(IsNull::No)` with w what range_to_sql did.
IsNullNo(w) ==
    IF IsErr(w.res) THEN w
    ELSE [res |-> Ok("No"), buf |-> w.buf, calls |-> w.calls]

\* to_sql that writes an empty range as a range without bounds.
RangeToSql_EmptyAsUnbounded(self, ty, buf) ==
    LET element_type == ElementType(ty)
    IN  IF IsNone(element_type) THEN [res |-> Panic, buf |-> buf, calls |-> <<>>]
        ELSE IsNullNo(ProtoRangeToSql(IF self.empty THEN None ELSE self.lower,
                                      IF self.empty THEN None ELSE self.upper,
                                      element_type.v, buf))

\* <Range<T> as ToSql>::to_sql(self, ty, buf): [res, buf, calls] with res
\* Panic, Err(fault) or Ok(IsNull::No).
RangeToSql(self, ty, buf) ==
    LET element_type == ElementType(ty)
    IN  IF IsNone(element_type) THEN [res |-> Panic, buf |-> buf, calls |-> <<>>]
        ELSE IF self.empty
        THEN [res |-> Ok("No"), buf |-> EmptyRangeToSql(buf), calls |-> <<>>]
        ELSE IsNullNo(ProtoRangeToSql(self.lower, self.upper, element_type.v, buf))

----------------------------------------------------------------------------
(* Inputs of the Range codec *)

Elems(nullable) ==
    { Elem(n) : n \in 0..MaxElem } \cup {BadElem}
    \cup (IF nullable THEN {NullElem} ELSE {})

\* Wire values offered to from_sql alone: encodings of ranges, cut short,
\* extended, with another tag byte or another length byte.
TagSamples == {0, 1, 2, 4, 6, 8, 16, 24, 25, 255}

Mutations(b) ==
    { SubSeq(b, 1, k) : k \in 0..Len(b) }
    \cup { b \o <<0>> }
    \cup { [b EXCEPT ![1] = t] : t \in TagSamples }
    \cup { [b EXCEPT ![i] = x] : i \in (2..5) \cap (1..Len(b)), x \in {1, 3, 128, 255} }

RawBufs ==
    UNION { Mutations(RangeToSql(r, [kind |-> "Range", elem |-> "int4"], <<>>).buf) :
            r \in RangesOver({Elem(0), NullElem}) }

\* What the buffer given to to_sql already holds.
Prefixes == {<<>>, <<7>>}

\* The bytes the codec is to decode: what follows the prefix.
Written(b, pre) == SubSeq(b, Len(pre) + 1, Len(b))

RgIdle ==
    [pc |-> "idle", ty |-> [kind |-> "Simple", name |-> "int4"], nullable |-> FALSE,
     checked |-> "no", value |-> RangeEmpty, pre |-> <<>>, buf |-> <<>>,
     enc |-> None, enc_calls |-> <<>>, dec |-> None, dec_calls |-> <<>>]

----------------------------------------------------------------------------
(* Error: its Kind, its causes, its span trace *)

\* Nested faults a Kind can carry: io::Error values and boxed errors.
Faults == {"fault1", "fault2"}

\* DbErrors as DbError::parse builds them.
SampleDbErrors ==
    { BuildDbError([Locals0 EXCEPT !.severity = Some("a"),
                                   !.code = Some(SqlStateFromCode(c)),
                                   !.message = Some("a")]).v : c \in {"a", "b"} }

\* enum Kind, each variant with what it holds.
Kinds ==
    { [kind |-> k, e |-> e] :
        k \in {"Io", "Tls", "Parse", "Encode", "Authentication", "ConfigParse",
               "Config", "Connect"},
        e \in Faults }
    \cup { [kind |-> k, idx |-> i, e |-> e] :
             k \in {"ToSql", "FromSql"}, i \in {0, 1}, e \in Faults }
    \cup { [kind |-> "Column", name |-> n] : n \in {"a"} }
    \cup { [kind |-> "Parameters", real |-> 1, expected |-> 0] }
    \cup { [kind |-> "Db", db |-> d] : d \in SampleDbErrors }
    \cup { [kind |-> "RowCount", expected |-> x, got |-> y] :
             x \in {"One", "ZeroOrOne"}, y \in {"MoreThanOne", "Zero"} }
    \cup { [kind |-> k] : k \in {"UnexpectedMessage", "Closed", "Timeout"} }

\* SpanTrace::capture()
Capture == "SpanTrace::capture()"

\* Error::new(kind): ErrorInner { kind, span_trace: Some(SpanTrace::capture()) }
ErrorNew(kind) == [kind |-> kind, span_trace |-> Some(Capture)]

\* <Error as std::error::Error>::source(&self)
Source(self) ==
    CASE self.kind.kind = "Io" -> Some(self.kind.e)
      [] self.kind.kind = "UnexpectedMessage" -> None
      [] self.kind.kind = "Tls" -> Some(self.kind.e)
      [] self.kind.kind = "ToSql" -> Some(self.kind.e)
      [] self.kind.kind = "FromSql" -> Some(self.kind.e)
      [] self.kind.kind = "Column" -> None
      [] self.kind.kind = "Parameters" -> None
      [] self.kind.kind = "Closed" -> None
      [] self.kind.kind = "Db" -> Some(self.kind.db)
      [] self.kind.kind = "Parse" -> Some(self.kind.e)
      [] self.kind.kind = "Encode" -> Some(self.kind.e)
      [] self.kind.kind = "Authentication" -> Some(self.kind.e)
      [] self.kind.kind = "ConfigParse" -> Some(self.kind.e)
      [] self.kind.kind = "Config" -> Some(self.kind.e)
      [] self.kind.kind = "Connect" -> Some(self.kind.e)
      [] self.kind.kind = "RowCount" -> None
      [] self.kind.kind = "Timeout" -> None

\* into_source with the Db arm returning None.
IntoSource_DbDropped(self) ==
    IF self.kind.kind = "Db" THEN None ELSE Source(self)

\* Error::into_source(self)
IntoSource(self) ==
    CASE self.kind.kind = "Io" -> Some(self.kind.e)
      [] self.kind.kind = "UnexpectedMessage" -> None
      [] self.kind.kind = "Tls" -> Some(self.kind.e)
      [] self.kind.kind = "ToSql" -> Some(self.kind.e)
      [] self.kind.kind = "FromSql" -> Some(self.kind.e)
      [] self.kind.kind = "Column" -> None
      [] self.kind.kind = "Parameters" -> None
      [] self.kind.kind = "Closed" -> None
      [] self.kind.kind = "Db" -> Some(self.kind.db)
      [] self.kind.kind = "Parse" -> Some(self.kind.e)
      [] self.kind.kind = "Encode" -> Some(self.kind.e)
      [] self.kind.kind = "Authentication" -> Some(self.kind.e)
      [] self.kind.kind = "ConfigParse" -> Some(self.kind.e)
      [] self.kind.kind = "Config" -> Some(self.kind.e)
      [] self.kind.kind = "Connect" -> Some(self.kind.e)
      [] self.kind.kind = "RowCount" -> None
      [] self.kind.kind = "Timeout" -> None

\* Error::as_db_error(&self)
AsDbError(self) ==
    IF self.kind.kind = "Db" THEN Some(self.kind.db) ELSE None

\* `matches!(self.0.kind, Kind::Closed | Kind::Timeout)`
IsClosed_OrTimeout(self) == self.kind.kind \in {"Closed", "Timeout"}

\* Error::is_closed(&self)
IsClosed(self) == self.kind.kind = "Closed"

\* DbError::code(&self)
DbErrorCode(db) == db.code

\* Error::code(&self): self.as_db_error().map(DbError::code)
Code(self) ==
    LET d == AsDbError(self)
    IN  IF IsSome(d) THEN Some(DbErrorCode(d.v)) ELSE None

\* Error::kind(&self)
KindOf(self) == self.kind

\* Error::span_trace(&self): self.0.span_trace.as_ref()
SpanTrace(self) == self.span_trace

\* `self.0.span_trace.clone()`: the capture handed out and kept.
TakeSpanTrace_Clone(self) == [ret |-> self.span_trace, self |-> self]

\* Error::take_span_trace(&mut self): self.0.span_trace.take()
TakeSpanTrace(self) ==
    [ret |-> self.span_trace, self |-> [self EXCEPT !.span_trace = None]]

\* How many times a call was made, as far as it matters.
Once(n) == IF n = "none" THEN "one" ELSE "many"

\* The Error a caller holds: e0 its Kind at construction, e the Error, prev
\* the Error before the last call, call and ret the last call and what it
\* returned, takes the calls of take_span_trace so far.
ErrIdle ==
    [pc |-> "idle", e0 |-> [kind |-> "Closed"], e |-> ErrorNew([kind |-> "Closed"]),
     prev |-> ErrorNew([kind |-> "Closed"]), call |-> "none", ret |-> None,
     takes |-> "none"]

----------------------------------------------------------------------------
(* LazyPin *)

PinValues == {"x", "y"}

\* LazyPin::new(value)
LazyPinNew(value) == [value |-> value, pinned |-> FALSE]

\* pinned() flipping the flag instead of setting it.
LazyPinPinned_Toggle(self) ==
    [self |-> [self EXCEPT !.pinned = ~self.pinned], ret |-> self.value]

\* LazyPin::pinned(&mut self): the flag set, the value handed out pinned.
LazyPinPinned(self) ==
    [self |-> [self EXCEPT !.pinned = TRUE], ret |-> self.value]

\* LazyPin::into_unpinned(self)
LazyPinIntoUnpinned(self) ==
    IF self.pinned THEN None ELSE Some(self.value)

\* The LazyPin a caller holds: v0 the value it was made of, pins the calls
\* of pinned() so far.
LpIdle ==
    [pc |-> "idle", v0 |-> "x", l |-> LazyPinNew("x"), call |-> "none",
     ret |-> None, pins |-> "none"]

----------------------------------------------------------------------------
(* FromRow for tuples *)

\* Cells of a row: a value of the requested type, or one that is not.
Cells == {[ok |-> TRUE, v |-> 0], [ok |-> TRUE, v |-> 1], [ok |-> FALSE, v |-> 0]}

\* Rows of up to MaxArity + 1 cells.
Rows == UNION { [1..k -> Cells] : k \in 0..(MaxArity + 1) }

\* Error::column(column)
ErrorColumn(column) == ErrorNew([kind |-> "Column", name |-> column])

\* Error::from_sql(e, idx)
ErrorFromSql(e, idx) == ErrorNew([kind |-> "FromSql", idx |-> idx, e |-> e])

\* row.try_get::<_, T>(idx): no such column, or a cell that does not decode
\* as T, or the value.
TryGet(cells, idx) ==
    IF idx >= Len(cells) THEN Err(ErrorColumn(idx))
    ELSE IF ~cells[idx + 1].ok THEN Err(ErrorFromSql("WrongType", idx))
    ELSE Ok(cells[idx + 1].v)

\* Every column decoded before the first fault is looked at.
RECURSIVE DecodeAll(_, _, _, _)
DecodeAll(n, cells, idx, acc) ==
    IF idx = n
    THEN [res |-> IF IsSome(acc.fault) THEN Err(acc.fault.v) ELSE Ok(acc.vals),
          calls |-> acc.calls]
    ELSE LET r == TryGet(cells, idx)
         IN  DecodeAll(n, cells, idx + 1,
                 [vals |-> IF IsOk(r) THEN Append(acc.vals, r.v) ELSE acc.vals,
                  fault |-> IF IsErr(r) /\ IsNone(acc.fault) THEN Some(r.e) ELSE acc.fault,
                  calls |-> Append(acc.calls, idx)])

FromRow_DecodeAll(n, cells) ==
    DecodeAll(n, cells, 0, [vals |-> <<>>, fault |-> None, calls |-> <<>>])

\* The tuple expression `($(row.try_get::<_, $T>($idx)?,)*)` from element idx
\* on: elements are evaluated left to right and the first `?` that fails
\* returns.
RECURSIVE TupleFrom(_, _, _, _)
TupleFrom(n, cells, idx, acc) ==
    IF idx = n THEN [res |-> Ok(acc.vals), calls |-> acc.calls]
    ELSE LET r == TryGet(cells, idx)
         IN  IF IsErr(r) THEN [res |-> r, calls |-> Append(acc.calls, idx)]
             ELSE TupleFrom(n, cells, idx + 1,
                     [vals |-> Append(acc.vals, r.v),
                      calls |-> Append(acc.calls, idx)])

\* <(T0, .., Tn-1) as FromRow>::from_row(row): [res, calls], calls the
\* indices given to try_get in order.
FromRow(n, cells) == TupleFrom(n, cells, 0, [vals |-> <<>>, calls |-> <<>>])

RowIdle == [pc |-> "idle", n |-> 1, cells |-> <<>>, ret |-> None, calls |-> <<>>]

----------------------------------------------------------------------------
(* Actions *)

InitParse ==
    /\ op = "parse"
    /\ ps = Parsing(Locals0)
    /\ psU = Parsing(Locals0)
    /\ psPQ = Parsing(Locals0)
    /\ error = None
    /\ last = Last0
    /\ hist = Hist0
    /\ rg = RgIdle
    /\ err = ErrIdle
    /\ row = RowIdle
    /\ lp = LpIdle

\* A Range value to encode and decode back, or wire bytes to decode.
InitRange ==
    /\ op \in {"range", "decode"}
    /\ ps = Parsing(Locals0)
    /\ psU = Parsing(Locals0)
    /\ psPQ = Parsing(Locals0)
    /\ error = None
    /\ last = Last0
    /\ hist = Hist0
    /\ \E ty \in Types, nullable \in BOOLEAN :
         IF op = "range"
         THEN \E r \in RangesOver(Elems(nullable)), pre \in Prefixes :
                rg = [RgIdle EXCEPT !.pc = "start", !.ty = ty,
                                    !.nullable = nullable, !.value = r,
                                    !.pre = pre, !.buf = pre]
         ELSE \E b \in RawBufs :
                rg = [RgIdle EXCEPT !.pc = "received", !.ty = ty,
                                    !.nullable = nullable, !.buf = b]
    /\ err = ErrIdle
    /\ row = RowIdle
    /\ lp = LpIdle

\* The parser and the Range codec at rest.
Resting ==
    /\ ps = Parsing(Locals0)
    /\ psU = Parsing(Locals0)
    /\ psPQ = Parsing(Locals0)
    /\ error = None
    /\ last = Last0
    /\ hist = Hist0
    /\ rg = RgIdle

\* An Error of any Kind, as Error::new makes it.
InitError ==
    /\ op = "error"
    /\ Resting
    /\ \E kind \in Kinds :
         err = [ErrIdle EXCEPT !.pc = "live", !.e0 = kind, !.e = ErrorNew(kind),
                               !.prev = ErrorNew(kind), !.call = "new"]
    /\ row = RowIdle
    /\ lp = LpIdle

\* A row and the arity of the tuple asked of it.
InitRow ==
    /\ op = "row"
    /\ Resting
    /\ err = ErrIdle
    /\ \E n \in 1..MaxArity, cells \in Rows :
         row = [RowIdle EXCEPT !.pc = "start", !.n = n, !.cells = cells]
    /\ lp = LpIdle

\* A LazyPin as LazyPin::new makes it.
InitPin ==
    /\ op = "pin"
    /\ Resting
    /\ err = ErrIdle
    /\ row = RowIdle
    /\ \E value \in PinValues :
         lp = [LpIdle EXCEPT !.pc = "live", !.v0 = value, !.l = LazyPinNew(value),
                             !.call = "new"]

Init == InitParse \/ InitRange \/ InitError \/ InitRow \/ InitPin

\* The parsers that skip some fields see the end of their message when the
\* parser of the whole message returns.
Settle(p, main) == IF main.pc = "done" THEN LoopEnd(p) ELSE p

\* Error::db returns as soon as DbError::parse has returned.
Returning(p) == IF p.pc = "done" THEN Some(ErrorDb(p.result.v)) ELSE None

\* fields.next() yields Ok(Some(f)).
NextField(f) ==
    /\ op = "parse"
    /\ ps.pc = "loop"
    /\ hist.bad = None
    /\ ps' = LoopBody(ps, f)
    /\ psU' = Settle(IF f.type_ \in RecognizedCodes THEN LoopBody(psU, f) ELSE psU, ps')
    /\ psPQ' = Settle(IF f.type_ \notin {"p", "q"} THEN LoopBody(psPQ, f) ELSE psPQ, ps')
    /\ error' = Returning(ps')
    /\ Record(f)
    /\ UNCHANGED <<op, rg, err, row, lp>>

\* fields.next() yields Ok(None).
NextNone ==
    /\ op = "parse"
    /\ ps.pc = "loop"
    /\ ps' = LoopEnd(ps)
    /\ psU' = LoopEnd(psU)
    /\ psPQ' = LoopEnd(psPQ)
    /\ error' = Returning(ps')
    /\ hist' = [hist EXCEPT !.end = "eof"]
    /\ UNCHANGED <<op, last, rg, err, row, lp>>

\* fields.next() yields Err(e): what was read is no field sequence.
NextErr ==
    /\ op = "parse"
    /\ ps.pc = "loop"
    /\ ps' = LoopFault(ps)
    /\ psU' = LoopFault(psU)
    /\ psPQ' = LoopFault(psPQ)
    /\ error' = Returning(ps')
    /\ hist' = [Hist0 EXCEPT !.end = "fault"]
    /\ last' = Last0
    /\ UNCHANGED <<op, rg, err, row, lp>>

\* The caller asks Range<T>::accepts(ty) first; it goes on only if accepted.
CheckAccepts ==
    /\ rg.pc \in {"start", "received"}
    /\ rg.checked = "no"
    /\ rg' = [rg EXCEPT !.checked = IF RangeAccepts(rg.ty) THEN "accepted" ELSE "refused"]
    /\ UNCHANGED <<op, ps, psU, psPQ, error, last, hist, err, row, lp>>

\* value.to_sql(ty, buf)
ToSql ==
    /\ rg.pc = "start"
    /\ rg.checked # "refused"
    /\ \E r \in {RangeToSql(rg.value, rg.ty, rg.buf)} :
           rg' = [rg EXCEPT !.enc = Some(r.res),
                            !.enc_calls = r.calls,
                            !.buf = r.buf,
                            !.pc = IF IsPanic(r.res) THEN "panicked"
                                   ELSE IF IsErr(r.res) THEN "failed"
                                   ELSE "encoded"]
    /\ UNCHANGED <<op, ps, psU, psPQ, error, last, hist, err, row, lp>>

\* Range::<T>::from_sql(ty, buf)
FromSql ==
    /\ rg.pc \in {"encoded", "received"}
    /\ rg.checked # "refused"
    /\ \E r \in {RangeFromSql(rg.ty, Written(rg.buf, rg.pre), rg.nullable)} :
           rg' = [rg EXCEPT !.dec = Some(r.res),
                            !.dec_calls = r.calls,
                            !.pc = IF IsPanic(r.res) THEN "panicked"
                                   ELSE IF IsErr(r.res) THEN "failed"
                                   ELSE "decoded"]
    /\ UNCHANGED <<op, ps, psU, psPQ, error, last, hist, err, row, lp>>

\* call ret on the Error e, leaving the Error e2.
Called(name, ret, e2) ==
    err' = [err EXCEPT !.call = name, !.ret = ret, !.prev = err.e, !.e = e2]

\* e.as_db_error()
CallAsDbError ==
    /\ err.pc = "live"
    /\ Called("as_db_error", AsDbError(err.e), err.e)
    /\ UNCHANGED <<op, ps, psU, psPQ, error, last, hist, rg, row, lp>>

\* e.code()
CallCode ==
    /\ err.pc = "live"
    /\ Called("code", Code(err.e), err.e)
    /\ UNCHANGED <<op, ps, psU, psPQ, error, last, hist, rg, row, lp>>

\* e.is_closed()
CallIsClosed ==
    /\ err.pc = "live"
    /\ Called("is_closed", IsClosed(err.e), err.e)
    /\ UNCHANGED <<op, ps, psU, psPQ, error, last, hist, rg, row, lp>>

\* e.kind()
CallKind ==
    /\ err.pc = "live"
    /\ Called("kind", KindOf(err.e), err.e)
    /\ UNCHANGED <<op, ps, psU, psPQ, error, last, hist, rg, row, lp>>

\* e.source()
CallSource ==
    /\ err.pc = "live"
    /\ Called("source", Source(err.e), err.e)
    /\ UNCHANGED <<op, ps, psU, psPQ, error, last, hist, rg, row, lp>>

\* e.span_trace()
CallSpanTrace ==
    /\ err.pc = "live"
    /\ Called("span_trace", SpanTrace(err.e), err.e)
    /\ UNCHANGED <<op, ps, psU, psPQ, error, last, hist, rg, row, lp>>

\* e.take_span_trace()
CallTakeSpanTrace ==
    /\ err.pc = "live"
    /\ LET r == TakeSpanTrace(err.e)
       IN  err' = [err EXCEPT !.call = "take_span_trace", !.ret = r.ret,
                              !.prev = err.e, !.e = r.self,
                              !.takes = Once(err.takes)]
    /\ UNCHANGED <<op, ps, psU, psPQ, error, last, hist, rg, row, lp>>

\* e.into_source(): the Error is consumed.
CallIntoSource ==
    /\ err.pc = "live"
    /\ err' = [err EXCEPT !.call = "into_source", !.ret = IntoSource(err.e),
                          !.prev = err.e, !.pc = "consumed"]
    /\ UNCHANGED <<op, ps, psU, psPQ, error, last, hist, rg, row, lp>>

\* <(T0, .., Tn-1)>::from_row(&row)
CallFromRow ==
    /\ row.pc = "start"
    /\ LET r == FromRow(row.n, row.cells)
       IN  row' = [row EXCEPT !.pc = "done", !.ret = Some(r.res), !.calls = r.calls]
    /\ UNCHANGED <<op, ps, psU, psPQ, error, last, hist, rg, err, lp>>

\* l.pinned()
CallPinned ==
    /\ lp.pc = "live"
    /\ LET r == LazyPinPinned(lp.l)
       IN  lp' = [lp EXCEPT !.l = r.self, !.call = "pinned", !.ret = Some(r.ret),
                            !.pins = Once(lp.pins)]
    /\ UNCHANGED <<op, ps, psU, psPQ, error, last, hist, rg, err, row>>

\* l.into_unpinned(): the LazyPin is consumed.
CallIntoUnpinned ==
    /\ lp.pc = "live"
    /\ lp' = [lp EXCEPT !.pc = "consumed", !.call = "into_unpinned",
                        !.ret = LazyPinIntoUnpinned(lp.l)]
    /\ UNCHANGED <<op, ps, psU, psPQ, error, last, hist, rg, err, row>>

Next ==
    \/ \E f \in Offered : NextField(f)
    \/ NextNone
    \/ NextErr
    \/ CheckAccepts
    \/ ToSql
    \/ FromSql
    \/ CallAsDbError
    \/ CallCode
    \/ CallIsClosed
    \/ CallKind
    \/ CallSource
    \/ CallSpanTrace
    \/ CallTakeSpanTrace
    \/ CallIntoSource
    \/ CallFromRow
    \/ CallPinned
    \/ CallIntoUnpinned

Spec == Init /\ [][Next]_vars

----------------------------------------------------------------------------
(* What the claims speak of *)

ParseDone == op = "parse" /\ ps.pc = "done"
Outcome == ps.result.v

\* The message ended and every field of it was valid.
WellFormed == hist.end = "eof" /\ hist.bad = None

Present(c) == IsSome(last[c])
MissingMandatory == {c \in MandatoryCodes : ~Present(c)}

MissingFault(c) ==
    CASE c = "S" -> "S field missing"
      [] c = "C" -> "C field missing"
      [] c = "M" -> "M field missing"

InvalidFault(c) ==
    CASE c = "P" -> "P field did not contain an integer"
      [] c = "p" -> "p field did not contain an integer"
      [] c = "L" -> "L field did not contain an integer"
      [] c = "V" -> "V field contained an invalid value"

QMissingFault == "q field missing but p field present"

LevelOf ==
    [t \in SeverityTokens |->
       CASE t = "PANIC" -> "Panic" [] t = "FATAL" -> "Fatal"
         [] t = "ERROR" -> "Error" [] t = "WARNING" -> "Warning"
         [] t = "NOTICE" -> "Notice" [] t = "DEBUG" -> "Debug"
         [] t = "INFO" -> "Info" [] t = "LOG" -> "Log"]

DigitChar(n) ==
    CASE n = 0 -> "0" [] n = 1 -> "1" [] n = 2 -> "2" [] n = 3 -> "3"
      [] n = 4 -> "4" [] n = 5 -> "5" [] n = 6 -> "6" [] n = 7 -> "7"
      [] n = 8 -> "8" [] n = 9 -> "9"

\* The decimal digits of a u32, without leading zeros.
RECURSIVE Decimal(_)
Decimal(x) ==
    IF x.hi = 0 /\ x.lo < 10 THEN <<DigitChar(x.lo)>>
    ELSE LET t == (x.hi % 10) * Base + x.lo
         IN  Decimal([hi |-> x.hi \div 10, lo |-> t \div 10]) \o <<DigitChar(t % 10)>>

\* The u32 x is the number the text denotes.
IsNumberOf(x, text) == Decimal(x) = StripZeros(NumDigits(text))

\* The position the fields of the message call for.
PositionIsFromMessage(pos) ==
    IF Present("P")
    THEN /\ IsSome(pos) /\ pos.v.kind = "Original"
         /\ IsNumberOf(pos.v.position, last["P"].v)
    ELSE IF Present("p")
    THEN /\ IsSome(pos) /\ pos.v.kind = "Internal"
         /\ IsNumberOf(pos.v.position, last["p"].v)
         /\ Present("q") /\ pos.v.query = last["q"].v
    ELSE pos = None

\* Nothing but a missing field or an invalid value stands against success.
NothingAmiss ==
    /\ WellFormed
    /\ MissingMandatory = {}
    /\ Present("P") \/ ~Present("p") \/ Present("q")

----------------------------------------------------------------------------
(* C1: in a message whose field values are all valid, a missing S, C or M  *)
(* field makes DbError::parse fail with the "field missing" fault of a     *)
(* field that is indeed missing (of the one missing field when only one    *)
(* is), and parse succeeds only when all three are present.                *)
C1_MandatoryFields ==
    (ParseDone /\ WellFormed) =>
        /\ MissingMandatory # {} =>
             /\ IsErr(Outcome)
             /\ \E c \in MissingMandatory : Outcome.e = MissingFault(c)
        /\ IsOk(Outcome) => MissingMandatory = {}
        /\ \A c \in MandatoryCodes :
             (IsErr(Outcome) /\ Outcome.e = MissingFault(c)) => c \in MissingMandatory

C1_Witness ==
    /\ ParseDone /\ WellFormed
    /\ MissingMandatory = {"M"}
    /\ Outcome = Err("M field missing")

(* C2: every field of an accepted DbError holds the value of the last      *)
(* field with its code; a message that misses no field and has no invalid  *)
(* value is accepted, however often codes are repeated.                    *)
C2_LastOccurrenceWins ==
    /\ (ParseDone /\ IsOk(Outcome)) =>
        LET db == Outcome.v
        IN  /\ Present("S") /\ db.severity = last["S"].v
            /\ Present("C") /\ db.code = SqlStateFromCode(last["C"].v)
            /\ Present("M") /\ db.message = last["M"].v
            /\ db.detail = last["D"]
            /\ db.hint = last["H"]
            /\ db.where_ = last["W"]
            /\ db.schema = last["s"]
            /\ db.table = last["t"]
            /\ db.column = last["c"]
            /\ db.datatype = last["d"]
            /\ db.constraint = last["n"]
            /\ db.file = last["F"]
            /\ db.routine = last["R"]
            /\ IF Present("L")
               THEN IsSome(db.line) /\ IsNumberOf(db.line.v, last["L"].v)
               ELSE db.line = None
            /\ IF Present("V")
               THEN db.parsed_severity = Some(LevelOf[last["V"].v])
               ELSE db.parsed_severity = None
            /\ PositionIsFromMessage(db.position)
    /\ (ParseDone /\ NothingAmiss) => IsOk(Outcome)

C2_Witness == ParseDone /\ IsOk(Outcome) /\ hist.repeated

(* C3: unrecognized fields are a no-op: parsing the message and parsing    *)
(* the message without its unrecognized fields are in the same state after *)
(* every field, and return the same DbError or the same fault.             *)
C3_UnrecognizedIgnored == op = "parse" => psU = ps

C3_Witness == ParseDone /\ IsOk(Outcome) /\ hist.unknown

(* C4 as stated: when the message carries P and S, C, M, the position is   *)
(* Original(P) and the p and q fields change nothing: the outcome is that  *)
(* of the message without them, whatever they hold.                        *)
C4_InternalFieldsIgnored ==
    (ParseDone /\ hist.end # "fault" /\ Present("P") /\ MissingMandatory = {}) =>
        /\ ps.result = psPQ.result
        /\ IsOk(Outcome) => PositionIsFromMessage(Outcome.v.position)

(* C4 amended: when the message carries P and S, C, M and no p field of it *)
(* holds a text that is not an integer, the position is Original(P) and    *)
(* the outcome is that of the message without its p and q fields.          *)
C4_InternalFieldsIgnoredIfIntegers ==
    (ParseDone /\ hist.end # "fault" /\ Present("P") /\ MissingMandatory = {}
       /\ hist.bad # Some("p")) =>
        /\ ps.result = psPQ.result
        /\ WellFormed =>
             /\ IsOk(Outcome)
             /\ Outcome.v.position.v.kind = "Original"
             /\ IsNumberOf(Outcome.v.position.v.position, last["P"].v)

C4_Witness ==
    /\ ParseDone /\ IsOk(Outcome)
    /\ Present("P") /\ Present("p") /\ ~Present("q")
    /\ Outcome.v.position.v.kind = "Original"

(* C5: in a message without P whose values are valid: p with q gives the   *)
(* position Internal{p, q}; p without q makes parse fail, with the fault   *)
(* "q field missing but p field present" when S, C and M are there;        *)
(* without p the position is absent and parse does not fail for it,        *)
(* with or without q.                                                      *)
C5_InternalPosition ==
    (ParseDone /\ WellFormed /\ ~Present("P")) =>
        /\ (Present("p") /\ Present("q")) =>
             /\ MissingMandatory = {} => IsOk(Outcome)
             /\ IsOk(Outcome) =>
                  /\ IsSome(Outcome.v.position)
                  /\ Outcome.v.position.v.kind = "Internal"
                  /\ IsNumberOf(Outcome.v.position.v.position, last["p"].v)
                  /\ Outcome.v.position.v.query = last["q"].v
        /\ (Present("p") /\ ~Present("q")) =>
             /\ IsErr(Outcome)
             /\ MissingMandatory = {} => Outcome.e = QMissingFault
        /\ ~Present("p") =>
             /\ MissingMandatory = {} => IsOk(Outcome)
             /\ IsOk(Outcome) => Outcome.v.position = None

C5_Witness ==
    /\ ParseDone /\ WellFormed /\ ~Present("P")
    /\ Present("p") /\ ~Present("q") /\ MissingMandatory = {}
    /\ Outcome = Err(QMissingFault)

(* C6: a V field is accepted exactly when its value is one of the eight    *)
(* tokens, and parsed_severity is then the level of that token; any other  *)
(* value makes parse fail with the "invalid value" fault; without a V      *)
(* field parsed_severity is absent and the message parses.                 *)
C6_ParsedSeverity ==
    op = "parse" =>
        /\ hist.bad = Some("V") => (ParseDone /\ Outcome = Err(InvalidFault("V")))
        /\ (ParseDone /\ Outcome = Err(InvalidFault("V"))) => hist.bad = Some("V")
        /\ (ps.pc = "loop" /\ Present("V")) =>
             ps.loc.parsed_severity = Some(LevelOf[last["V"].v])
        /\ (ps.pc = "loop" /\ ~Present("V")) => ps.loc.parsed_severity = None
        /\ (ParseDone /\ IsOk(Outcome)) =>
             Outcome.v.parsed_severity =
                 IF Present("V") THEN Some(LevelOf[last["V"].v]) ELSE None
        /\ (ParseDone /\ NothingAmiss /\ ~Present("V")) => IsOk(Outcome)

C6_Witness ==
    /\ ParseDone /\ IsOk(Outcome)
    /\ last["V"] = Some("LOG") /\ Outcome.v.parsed_severity = Some("Log")

(* C7: a P or L field is accepted exactly when its text is an integer of   *)
(* 0 .. 2^32 - 1 (an optional "+", then digits); any other text makes      *)
(* parse fail with the "did not contain an integer" fault of that code;    *)
(* an accepted text is stored as the number it denotes.                    *)
C7_IntegerFields ==
    op = "parse" =>
        \A c \in {"P", "L"} :
            /\ hist.bad = Some(c) => (ParseDone /\ Outcome = Err(InvalidFault(c)))
            /\ (ParseDone /\ Outcome = Err(InvalidFault(c))) => hist.bad = Some(c)
            /\ LET slot == IF c = "P" THEN ps.loc.normal_position ELSE ps.loc.line
               IN  ps.pc = "loop" =>
                     IF Present(c)
                     THEN IsSome(slot) /\ IsNumberOf(slot.v, last[c].v)
                     ELSE slot = None
            /\ (ParseDone /\ IsOk(Outcome) /\ Present(c)) =>
                 IF c = "P"
                 THEN /\ Outcome.v.position.v.kind = "Original"
                      /\ IsNumberOf(Outcome.v.position.v.position, last[c].v)
                 ELSE /\ IsSome(Outcome.v.line)
                      /\ IsNumberOf(Outcome.v.line.v, last[c].v)

C7_Witness ==
    /\ ParseDone /\ IsOk(Outcome)
    /\ last["P"] = Some(MaxU32Text)
    /\ Outcome.v.position.v.position = [hi |-> Base - 1, lo |-> Base - 1]

(* C8: Error::db returns either Kind::Db with a DbError whose S, C and M   *)
(* are set, or Kind::Parse with the fault of DbError::parse; the first     *)
(* field with an invalid value ends the pass and its fault is the one      *)
(* returned, whatever else the message lacks; nothing is returned before   *)
(* the pass ends, and no fault is replaced or dropped.                     *)
C8_DbOrParse ==
    op = "parse" =>
        /\ ps.pc = "loop" => error = None
        /\ ParseDone =>
             /\ IsSome(error)
             /\ IF IsOk(Outcome)
                THEN /\ error.v = [kind |-> "Db", db |-> Outcome.v]
                     /\ WellFormed /\ MissingMandatory = {}
                     /\ error.v.db.severity = last["S"].v
                     /\ error.v.db.code = SqlStateFromCode(last["C"].v)
                     /\ error.v.db.message = last["M"].v
                ELSE error.v = [kind |-> "Parse", e |-> Outcome.e]
        /\ \A c \in {"P", "p", "L", "V"} :
             hist.bad = Some(c) =>
                 /\ ParseDone
                 /\ error = Some([kind |-> "Parse", e |-> InvalidFault(c)])
        /\ hist.end = "fault" =>
             error = Some([kind |-> "Parse", e |-> StreamFault])
        /\ (ParseDone /\ WellFormed /\ ~NothingAmiss) => error.v.kind = "Parse"

C8_Witness ==
    /\ ParseDone
    /\ hist.bad = Some("L")
    /\ MissingMandatory = {"C", "M"}
    /\ error = Some([kind |-> "Parse", e |-> "L field did not contain an integer"])

(* C9: a Range value that encodes decodes, with the same Range type, to    *)
(* an equal value: the empty range and every pairing of an unbounded,      *)
(* inclusive or exclusive lower bound with such an upper bound.            *)
C9_RangeRoundTrip ==
    (op = "range" /\ IsSome(rg.enc) /\ IsOk(rg.enc.v)) =>
        /\ rg.pc \in {"encoded", "decoded"}
        /\ IsSome(rg.dec) => rg.dec.v = Ok(rg.value)

C9_Witness ==
    /\ op = "range" /\ rg.pc = "decoded"
    /\ rg.value = RangeNew(Some(RangeBoundNew(Elem(0), "Inclusive")),
                           Some(RangeBoundNew(Elem(1), "Exclusive")))
    /\ rg.dec.v = Ok(rg.value)

(* C10: to_sql and from_sql of a Range panic exactly when the kind of the  *)
(* type is not Range; accepts is false for every other kind and is the     *)
(* accepts of the element capability for Range(elem); so a call made after *)
(* a successful accepts never panics, and no wire bytes make from_sql      *)
(* panic.                                                                  *)
C10_PanicOnlyOnKind ==
    /\ IsSome(rg.enc) => (IsPanic(rg.enc.v) <=> rg.ty.kind # "Range")
    /\ IsSome(rg.dec) => (IsPanic(rg.dec.v) <=> rg.ty.kind # "Range")
    /\ rg.pc = "panicked" => rg.ty.kind # "Range"
    /\ rg.checked # "no" =>
         (rg.checked = "accepted" <=>
              (rg.ty.kind = "Range" /\ ElemAccepts(rg.ty.elem)))
    /\ rg.checked = "accepted" => rg.pc # "panicked"

C10_Witness ==
    /\ op = "decode" /\ rg.checked = "accepted"
    /\ rg.pc = "failed" /\ IsErr(rg.dec.v)

----------------------------------------------------------------------------
(* What the claims on the Range codec speak of *)

\* The bound frames of the bytes the codec wrote or was given.
Frames == ProtoRangeFromSql(Written(rg.buf, rg.pre))

\* How many element calls a side makes: one if it is there and the call
\* before it did not fail.
SideCalls(there, before) ==
    IF there /\ (before = <<>> \/ IsOk(before[Len(before)].ret)) THEN 1 ELSE 0

FailedCalls(calls) == {i \in 1..Len(calls) : IsErr(calls[i].ret)}

\* The frame written for a bound, given what the element encode returned.
FrameIsOf(frame, bound, calls) ==
    IF IsNone(bound) THEN frame.kind = "Unbounded"
    ELSE /\ frame.kind = bound.v.type_
         /\ IsNone(frame.v) <=> calls[1].ret = Ok("Yes")

\* The bound decoded from a frame, given what the element decode returned.
BoundIsOf(bound, frame, calls) ==
    IF frame.kind = "Unbounded" THEN bound = None
    ELSE bound = Some([value |-> calls[1].ret.v, type_ |-> frame.kind])

(* C11: to_sql of an empty Range, with any Range type, returns Ok, leaves  *)
(* what the buffer held, appends the one empty-range byte and calls the    *)
(* element to_sql not once.                                                *)
C11_EmptyRangeEncode ==
    (IsSome(rg.enc) /\ rg.value = RangeEmpty /\ rg.ty.kind = "Range") =>
        /\ rg.enc.v = Ok("No")
        /\ rg.buf = rg.pre \o <<RANGE_EMPTY>>
        /\ rg.enc_calls = <<>>

C11_Witness ==
    /\ op = "range" /\ rg.pc = "encoded"
    /\ rg.value = RangeEmpty
    /\ rg.ty = [kind |-> "Range", elem |-> "text"]
    /\ rg.pre = <<7>> /\ rg.buf = <<7, 1>>

(* C16: from_sql of a nonempty wire value decodes the lower frame, then    *)
(* the upper: no element call for Unbounded, from_sql of the payload with  *)
(* the element type for a payload, from_sql_null for a null; each bound    *)
(* has the kind of its frame and the value the element call returned; a    *)
(* fault of the lower call is returned with no call made for the upper.    *)
C16_BoundDecode ==
    (IsSome(rg.dec) /\ rg.ty.kind = "Range" /\ IsOk(Frames) /\ ~Frames.v.empty) =>
        LET lower == Frames.v.lower
            upper == Frames.v.upper
            calls == rg.dec_calls
            nl == SideCalls(lower.kind # "Unbounded", <<>>)
            nu == SideCalls(upper.kind # "Unbounded", SubSeq(calls, 1, nl))
            side == <<lower, upper>>
            at == <<1, nl + 1>>
        IN  /\ Len(calls) = nl + nu
            /\ \A k \in 1..2 :
                 (side[k].kind # "Unbounded" /\ at[k] <= Len(calls)) =>
                     /\ calls[at[k]].method =
                          (IF IsSome(side[k].v) THEN "from_sql" ELSE "from_sql_null")
                     /\ calls[at[k]].arg = side[k].v
                     /\ calls[at[k]].ty = rg.ty.elem
            /\ FailedCalls(calls) \subseteq {Len(calls)}
            /\ IF FailedCalls(calls) # {}
               THEN rg.dec.v = calls[Len(calls)].ret
               ELSE /\ IsOk(rg.dec.v)
                    /\ ~rg.dec.v.v.empty
                    /\ BoundIsOf(rg.dec.v.v.lower, lower, SubSeq(calls, 1, nl))
                    /\ BoundIsOf(rg.dec.v.v.upper, upper, SubSeq(calls, nl + 1, nl + nu))

C16_Witness ==
    /\ op = "decode" /\ rg.pc = "failed" /\ ~rg.nullable
    /\ IsOk(Frames) /\ ~Frames.v.empty
    /\ Frames.v.lower.kind = "Inclusive" /\ Frames.v.lower.v = None
    /\ Frames.v.upper.kind = "Exclusive" /\ IsSome(Frames.v.upper.v)
    /\ Len(rg.dec_calls) = 1
    /\ rg.dec.v = Err("WasNull")

(* C17: to_sql of a nonempty Range calls the element to_sql for the lower  *)
(* bound, then for the upper, and for an absent bound not at all; a fault  *)
(* of a call ends the encode, which returns it; otherwise the bytes hold,  *)
(* after what the buffer held, for each side Unbounded when the bound is   *)
(* absent and else a frame of the kind of the bound, null exactly when     *)
(* the element to_sql returned IsNull::Yes.                                *)
C17_BoundEncode ==
    (IsSome(rg.enc) /\ rg.ty.kind = "Range" /\ ~rg.value.empty) =>
        LET lower == rg.value.lower
            upper == rg.value.upper
            calls == rg.enc_calls
            nl == SideCalls(IsSome(lower), <<>>)
            nu == SideCalls(IsSome(upper), SubSeq(calls, 1, nl))
            side == <<lower, upper>>
            at == <<1, nl + 1>>
        IN  /\ Len(calls) = nl + nu
            /\ \A k \in 1..2 :
                 (IsSome(side[k]) /\ at[k] <= Len(calls)) =>
                     /\ calls[at[k]].method = "to_sql"
                     /\ calls[at[k]].arg = side[k].v.value
                     /\ calls[at[k]].ty = rg.ty.elem
            /\ FailedCalls(calls) \subseteq {Len(calls)}
            /\ IF FailedCalls(calls) # {}
               THEN rg.enc.v = calls[Len(calls)].ret
               ELSE /\ rg.enc.v = Ok("No")
                    /\ SubSeq(rg.buf, 1, Len(rg.pre)) = rg.pre
                    /\ IsOk(Frames) /\ ~Frames.v.empty
                    /\ FrameIsOf(Frames.v.lower, lower, SubSeq(calls, 1, nl))
                    /\ FrameIsOf(Frames.v.upper, upper, SubSeq(calls, nl + 1, nl + nu))

C17_Witness ==
    /\ op = "range" /\ rg.pc = "encoded" /\ rg.pre = <<7>>
    /\ rg.value = RangeNew(Some(RangeBoundNew(NullElem, "Exclusive")),
                           Some(RangeBoundNew(Elem(1), "Inclusive")))
    /\ Len(rg.enc_calls) = 2
    /\ rg.enc_calls[1].ret = Ok("Yes")
    /\ Frames.v.lower = [kind |-> "Exclusive", v |-> None]
    /\ Frames.v.upper = [kind |-> "Inclusive", v |-> Some(<<0, 1>>)]

(* C18: a p field is converted to a u32 when it is read, whatever fields  *)
(* came before it: the first invalid field being a p ends the parse with   *)
(* the fault "p field did not contain an integer", also when a valid P has *)
(* been read and the message without its p and q fields parses to an       *)
(* Original position; that fault is returned in no other case, and a valid *)
(* p is kept as the number it denotes.                                     *)
C18_InternalPositionValidated ==
    op = "parse" =>
        /\ hist.bad = Some("p") => (ParseDone /\ Outcome = Err(InvalidFault("p")))
        /\ (ParseDone /\ Outcome = Err(InvalidFault("p"))) => hist.bad = Some("p")
        /\ ps.pc = "loop" =>
             IF Present("p")
             THEN /\ IsSome(ps.loc.internal_position)
                  /\ IsNumberOf(ps.loc.internal_position.v, last["p"].v)
             ELSE ps.loc.internal_position = None

C18_Witness ==
    /\ ParseDone /\ hist.bad = Some("p")
    /\ Present("P") /\ MissingMandatory = {}
    /\ Outcome = Err("p field did not contain an integer")
    /\ IsOk(psPQ.result.v)
    /\ psPQ.result.v.v.position.v.kind = "Original"

\* The one fault due after the loop, by the order of the DbError literal.
PostPassFault ==
    IF ~Present("S") THEN Some(MissingFault("S"))
    ELSE IF ~Present("C") THEN Some(MissingFault("C"))
    ELSE IF ~Present("M") THEN Some(MissingFault("M"))
    ELSE IF ~Present("P") /\ Present("p") /\ ~Present("q") THEN Some(QMissingFault)
    ELSE None

(* C19: for a message whose values are all valid, DbError::parse returns   *)
(* the first fault that applies in the order: S missing, C missing,        *)
(* M missing, p without q (and without P); it succeeds when none applies.  *)
C19_FaultOrder ==
    (ParseDone /\ WellFormed) =>
        IF IsSome(PostPassFault) THEN Outcome = Err(PostPassFault.v)
        ELSE IsOk(Outcome)

C19_Witness ==
    /\ ParseDone /\ WellFormed
    /\ MissingMandatory = {"C", "M"}
    /\ ~Present("P") /\ Present("p") /\ ~Present("q")
    /\ Outcome = Err("C field missing")

\* The last call on the Error left it as it was.
ErrorUntouched == err.pc = "live" /\ err.e = err.prev

(* C12: on an Error of any Kind, as_db_error() returns the nested DbError  *)
(* when the Kind is Db and absent otherwise; code() returns that DbError's *)
(* SQLSTATE when the Kind is Db and absent otherwise; is_closed() returns  *)
(* true exactly when the Kind is Closed; the Error is the same after each  *)
(* of these calls as before it.                                            *)
C12_Accessors ==
    /\ err.call = "as_db_error" =>
         /\ err.ret = (IF err.e0.kind = "Db" THEN Some(err.e0.db) ELSE None)
         /\ ErrorUntouched
    /\ err.call = "code" =>
         /\ err.ret = (IF err.e0.kind = "Db" THEN Some(err.e0.db.code) ELSE None)
         /\ ErrorUntouched
    /\ err.call = "is_closed" =>
         /\ err.ret = (err.e0.kind = "Closed")
         /\ ErrorUntouched

C12_Witness ==
    /\ op = "error" /\ err.call = "code"
    /\ err.e0.kind = "Db"
    /\ err.ret = Some(SqlStateFromCode("b"))
    /\ err.takes = "one"
    /\ err.e = [kind |-> err.e0, span_trace |-> None]

\* The variants that carry an underlying fault.
CauseKinds ==
    {"Io", "Tls", "ToSql", "FromSql", "Db", "Parse", "Encode", "Authentication",
     "ConfigParse", "Config", "Connect"}

\* The fault nested in a Kind of CauseKinds.
NestedFault(kind) == IF kind.kind = "Db" THEN kind.db ELSE kind.e

\* The cause due for a Kind.
CauseOf(kind) ==
    IF kind.kind \in CauseKinds THEN Some(NestedFault(kind)) ELSE None

(* C13: into_source() returns the nested fault for the Kinds Io, Tls,      *)
(* ToSql, FromSql, Db, Parse, Encode, Authentication, ConfigParse, Config  *)
(* and Connect, and absent for UnexpectedMessage, Column, Parameters,      *)
(* Closed, RowCount and Timeout; source() returns the same cause for the   *)
(* same Kinds and leaves the Error as it was; into_source() consumes it.   *)
C13_Sources ==
    /\ err.call = "source" =>
         /\ err.ret = CauseOf(err.e0)
         /\ ErrorUntouched
    /\ err.call = "into_source" =>
         /\ err.ret = CauseOf(err.e0)
         /\ err.pc = "consumed"

C13_Witness ==
    /\ op = "error" /\ err.call = "into_source" /\ err.pc = "consumed"
    /\ err.e0 = [kind |-> "FromSql", idx |-> 1, e |-> "fault2"]
    /\ err.ret = Some("fault2")

(* C14: the first take_span_trace() on an Error returns the capture made   *)
(* at construction; every later take_span_trace() and every span_trace()   *)
(* after a take returns absent; span_trace() before any take returns the   *)
(* capture and leaves the Error as it was; the Kind of the Error is at     *)
(* all times the Kind it was constructed with.                             *)
C14_SpanTraceOnce ==
    err.pc = "live" =>
        /\ err.e.kind = err.e0
        /\ err.e.span_trace = (IF err.takes = "none" THEN Some(Capture) ELSE None)
        /\ err.call = "take_span_trace" =>
             err.ret = (IF err.takes = "one" THEN Some(Capture) ELSE None)
        /\ err.call = "span_trace" =>
             /\ err.ret = (IF err.takes = "none" THEN Some(Capture) ELSE None)
             /\ ErrorUntouched

C14_Witness ==
    /\ op = "error" /\ err.call = "take_span_trace"
    /\ err.takes = "many"
    /\ err.ret = None
    /\ err.e0.kind = "Db"
    /\ err.e.kind = err.e0

\* The indices below the arity that try_get fails on: no such column, or a
\* cell that is not of the requested type.
FailingIndices ==
    { i \in 0..(row.n - 1) : i >= Len(row.cells) \/ ~row.cells[i + 1].ok }

LowestFailing == CHOOSE i \in FailingIndices : \A j \in FailingIndices : i <= j

\* The indices 0..k in increasing order.
UpTo(k) == [i \in 1..(k + 1) |-> i - 1]

(* C15: from_row for a tuple of n elements decodes the columns 0..n-1 in   *)
(* increasing order; when every one decodes it returns the tuple of their  *)
(* values in that order; otherwise it returns the Error of the lowest      *)
(* index that fails (Column when the row has no such column, FromSql with  *)
(* that index when the cell does not decode), decodes no later column and  *)
(* returns no tuple.                                                       *)
C15_TupleFromRow ==
    row.pc = "done" =>
        IF FailingIndices = {}
        THEN /\ row.ret.v = Ok([i \in 1..row.n |-> row.cells[i].v])
             /\ row.calls = UpTo(row.n - 1)
        ELSE /\ IsErr(row.ret.v)
             /\ row.ret.v.e.kind.kind =
                  (IF LowestFailing >= Len(row.cells) THEN "Column" ELSE "FromSql")
             /\ row.ret.v.e.kind.kind = "Column" => row.ret.v.e.kind.name = LowestFailing
             /\ row.ret.v.e.kind.kind = "FromSql" => row.ret.v.e.kind.idx = LowestFailing
             /\ row.calls = UpTo(LowestFailing)

C15_Witness ==
    /\ op = "row" /\ row.pc = "done" /\ row.n = 3
    /\ FailingIndices = {1, 2}
    /\ Len(row.cells) = 2
    /\ row.calls = <<0, 1>>
    /\ row.ret.v = Err(ErrorFromSql("WrongType", 1))

(* C20: the pinned flag of a LazyPin is false when it is made, true from   *)
(* the first pinned() on and never false again; into_unpinned() returns    *)
(* the owned value when pinned() was never called and absent otherwise.    *)
C20_LazyPin ==
    lp.pc # "idle" =>
        /\ lp.l.pinned = (lp.pins # "none")
        /\ lp.l.value = lp.v0
        /\ lp.call = "pinned" => lp.ret = Some(lp.v0)
        /\ lp.pc = "consumed" =>
             lp.ret = (IF lp.pins = "none" THEN Some(lp.v0) ELSE None)

C20_Witness ==
    /\ op = "pin" /\ lp.pc = "consumed" /\ lp.call = "into_unpinned"
    /\ lp.pins = "many"
    /\ lp.l.pinned
    /\ lp.ret = None

====
